---- MODULE Spec2Model ----
(***************************************************************************)
(* Benfica-Calendar: the text-classification and field-extraction engine   *)
(* of src/Parsing/parsing.py (parse_event and its helpers), with the       *)
(* keyword configuration of src/Parsing/config.py.                         *)
(*                                                                         *)
(* Python str values are TLA+ strings; str operations are computed         *)
(* character by character with Len, SubSeq and \o.  TLA+ string literals   *)
(* are ASCII, so the few non-ASCII code points the program's keywords use  *)
(* are renamed one-to-one onto ASCII symbols that occur nowhere else:      *)
(*                                                                         *)
(*     @  U+26BD soccer ball          ^  U+FE0F variation selector         *)
(*     #  U+1F4FA television          $  U+1F3AB ticket                    *)
(*     &  e-acute   (lower case)      ?  E-acute (upper case of &)         *)
(*     %  c-cedilla                   ~  o-tilde                           *)
(*     *  a-tilde                     !  o-acute                           *)
(*                                                                         *)
(* The four emoji code points are non-word, non-space characters; the six  *)
(* accented letters are word characters (Python 3 str patterns are Unicode *)
(* aware).  Whitespace of the alphabet is space, tab and newline; newline  *)
(* is its only line boundary.                                              *)
(*                                                                         *)
(* Optional[T] is a sequence of length at most one: None is << >> and a    *)
(* present value v is <<v>>.                                               *)
(***************************************************************************)
EXTENDS Integers, Sequences, FiniteSets, TLC

VARIABLES entry, pc, header, summary_info, ticket_url, event

vars == <<entry, pc, header, summary_info, ticket_url, event>>

-----------------------------------------------------------------------------
(* Optional values *)

None == << >>

Some(v) == <<v>>

IsNone(o) == o = << >>

Get(o) == o[1]

-----------------------------------------------------------------------------
(* Characters and str primitives *)

Char(s, i) == SubSeq(s, i, i)

From(s, i) == SubSeq(s, i, Len(s))

CharsOf(s) == {Char(s, i) : i \in 1..Len(s)}

WhitespaceChars == {" ", "\t", "\n"}

DigitChars == CharsOf("0123456789")

UpperLetters == "ABCDEFGHIJKLMNOPQRSTUVWXYZ?"

LowerLetters == "abcdefghijklmnopqrstuvwxyz&"

OtherLetters == "%~*!"

WordChars ==
    CharsOf(UpperLetters) \cup CharsOf(LowerLetters) \cup CharsOf(OtherLetters)
    \cup DigitChars \cup {"_"}

LowerOf ==
    [c \in CharsOf(UpperLetters) |->
        Char(LowerLetters, CHOOSE i \in 1..Len(UpperLetters) : Char(UpperLetters, i) = c)]

DigitValue ==
    [c \in DigitChars |-> CHOOSE d \in 0..9 : Char("0123456789", d + 1) = c]

\* \s of the re module
IsSpace(c) == c \in WhitespaceChars

\* \d of the re module
IsDigit(c) == c \in DigitChars

\* \w of the re module (its complement is \W)
IsWord(c) == c \in WordChars

LowerChar(c) == IF c \in DOMAIN LowerOf THEN LowerOf[c] ELSE c

RECURSIVE LowerFrom(_, _)
LowerFrom(s, i) ==
    IF i > Len(s) THEN "" ELSE LowerChar(Char(s, i)) \o LowerFrom(s, i + 1)

\* str.lower()
Lower(s) == LowerFrom(s, 1)

\* the end of the longest run of whitespace of s that starts at position i
\* (i - 1 when the run is empty)
RECURSIVE SpaceRunEnd(_, _)
SpaceRunEnd(s, i) ==
    IF i <= Len(s) /\ IsSpace(Char(s, i)) THEN SpaceRunEnd(s, i + 1) ELSE i - 1

\* the start of the longest run of whitespace of s that ends at position i
RECURSIVE SpaceRunStart(_, _)
SpaceRunStart(s, i) ==
    IF i >= 1 /\ IsSpace(Char(s, i)) THEN SpaceRunStart(s, i - 1) ELSE i + 1

\* the end of the longest run of digits of s that starts at position i
RECURSIVE DigitRunEnd(_, _)
DigitRunEnd(s, i) ==
    IF i <= Len(s) /\ IsDigit(Char(s, i)) THEN DigitRunEnd(s, i + 1) ELSE i - 1

\* the end of the longest run of non-word characters of s that starts at i
RECURSIVE NonWordRunEnd(_, _)
NonWordRunEnd(s, i) ==
    IF i <= Len(s) /\ ~IsWord(Char(s, i)) THEN NonWordRunEnd(s, i + 1) ELSE i - 1

\* str.strip()
Strip(s) ==
    LET first == SpaceRunEnd(s, 1) + 1
    IN  IF first > Len(s) THEN ""
        ELSE SubSeq(s, first, SpaceRunStart(s, Len(s)) - 1)

\* str.startswith(p)
StartsWith(s, p) == Len(p) <= Len(s) /\ SubSeq(s, 1, Len(p)) = p

\* the first position at or after i where k occurs in s; 0 if there is none
RECURSIVE FindFrom(_, _, _)
FindFrom(s, k, i) ==
    IF i + Len(k) - 1 > Len(s) THEN 0
    ELSE IF SubSeq(s, i, i + Len(k) - 1) = k THEN i
    ELSE FindFrom(s, k, i + 1)

\* str.find(k) + 1
Find(s, k) == FindFrom(s, k, 1)

\* k in s
Contains(s, k) == Find(s, k) # 0

\* str.split(sep)
RECURSIVE Split(_, _)
Split(s, sep) ==
    LET i == Find(s, sep)
    IN  IF i = 0 THEN <<s>>
        ELSE <<SubSeq(s, 1, i - 1)>> \o Split(From(s, i + Len(sep)), sep)

\* str.split(sep, 1)
SplitOnce(s, sep) ==
    LET i == Find(s, sep)
    IN  IF i = 0 THEN <<s>>
        ELSE <<SubSeq(s, 1, i - 1), From(s, i + Len(sep))>>

\* str.splitlines()
RECURSIVE SplitLines(_)
SplitLines(s) ==
    IF s = "" THEN << >>
    ELSE LET i == Find(s, "\n")
         IN  IF i = 0 THEN <<s>>
             ELSE <<SubSeq(s, 1, i - 1)>> \o SplitLines(From(s, i + 1))

\* re.sub(r"^\W+", "", s)
StripLeadingNonWord(s) == From(s, NonWordRunEnd(s, 1) + 1)

\* re.sub(r"\s+", " ", s)
RECURSIVE CollapseFrom(_, _)
CollapseFrom(s, i) ==
    IF i > Len(s) THEN ""
    ELSE IF IsSpace(Char(s, i))
         THEN " " \o CollapseFrom(s, SpaceRunEnd(s, i) + 1)
         ELSE Char(s, i) \o CollapseFrom(s, i + 1)

CollapseWhitespace(s) == CollapseFrom(s, 1)

\* int(s) of a string of digits
RECURSIVE ToInt(_)
ToInt(s) ==
    IF s = "" THEN 0
    ELSE 10 * ToInt(SubSeq(s, 1, Len(s) - 1)) + DigitValue[Char(s, Len(s))]

\* [s.strip() for s in seq if s.strip()]
RECURSIVE StripNonEmpty(_)
StripNonEmpty(seq) ==
    IF seq = << >> THEN << >>
    ELSE LET head == Strip(Head(seq))
         IN  IF head # "" THEN <<head>> \o StripNonEmpty(Tail(seq))
             ELSE StripNonEmpty(Tail(seq))

\* the least element of a non-empty set of numbers
SetMin(S) == CHOOSE i \in S : \A j \in S : i <= j

\* the greatest element of a non-empty set of numbers
SetMax(S) == CHOOSE i \in S : \A j \in S : j <= i

-----------------------------------------------------------------------------
(* Keyword configuration: src/Parsing/config.py *)

BENFICA_NAME == "SL Benfica"

\* SPORT_KEYWORDS with the short "H!quei" ahead of "H!quei em Patins"
SPORT_KEYWORDS_ShortFirst ==
    <<"H!quei", "H!quei em Patins", "Andebol", "Futsal", "Basquetebol",
      "Voleibol", "Futebol">>

SPORT_KEYWORDS ==
    <<"H!quei em Patins", "Andebol", "Futsal", "Basquetebol", "Voleibol",
      "Futebol", "H!quei">>

FOOTBALL_SQUAD_KEYWORDS ==
    <<"Equipa B", "Juniores", "Sub-19", "Sub-23", "Sub-17", "Sub-15",
      "Juvenis", "Iniciados">>

FOOTBALL_COMP_KEYWORDS ==
    <<"liga portugal", "ta%a de portugal", "liga dos campe~es",
      "liga dos campeoes", "liga revela%*o", "liga revelacao",
      "liga dos campe~es feminina", "liga dos campeoes feminina",
      "liga dos campe~es feminina uefa", "superta%a", "supertaca",
      "campeonato nacional feminino ii divis*o",
      "campeonato nacional feminino ii divisao">>

BROADCAST_KEYWORDS ==
    <<"#", "BTV", "DAZN", "Sport TV", "Eleven", "Canal 11", "RTP", "SIC",
      "TVI", "Benfica TV">>

\* the index of the first keyword at or after index i of the list that s
\* contains; 0 if there is none
RECURSIVE KeywordFrom(_, _, _)
KeywordFrom(s, keywords, i) ==
    IF i > Len(keywords) THEN 0
    ELSE IF Contains(s, keywords[i]) THEN i
    ELSE KeywordFrom(s, keywords, i + 1)

\* for k in keywords: if k in s: ... break
FirstKeyword(s, keywords) == KeywordFrom(s, keywords, 1)

\* any(k in s for k in keywords)
ContainsAny(s, keywords) == FirstKeyword(s, keywords) # 0

-----------------------------------------------------------------------------
(* is_ticketing_event: summary and description are str, competition is     *)
(* Optional[str]                                                           *)

OrEmpty(o) == IF IsNone(o) THEN "" ELSE Get(o)

\* is_ticketing_event testing the summary as given, without strip()
is_ticketing_event_unstripped(summary, description, competition) ==
    LET s == Lower(summary)
        d == Lower(Strip(description))
        c == Lower(Strip(OrEmpty(competition)))
    IN  \/ Contains(d, "crit&rios de venda")
        \/ StartsWith(c, "crit&rios de venda")
        \/ StartsWith(s, "$ bilhetes")
        \/ StartsWith(s, "bilhetes ")
        \/ (Contains(s, "bilhetes") /\ ~Contains(s, " | "))

is_ticketing_event(summary, description, competition) ==
    LET s == Lower(Strip(summary))
        d == Lower(Strip(description))
        c == Lower(Strip(OrEmpty(competition)))
    IN  \/ Contains(d, "crit&rios de venda")
        \/ StartsWith(c, "crit&rios de venda")
        \/ StartsWith(s, "$ bilhetes")
        \/ StartsWith(s, "bilhetes ")
        \/ (Contains(s, "bilhetes") /\ ~Contains(s, " | "))

\* is_benfica_team with "BENFICA_NAME in name" for the prefix test
is_benfica_team_anywhere(name) ==
    IF name = "" THEN FALSE ELSE Contains(name, BENFICA_NAME)

is_benfica_team(name) ==
    IF name = "" THEN FALSE ELSE StartsWith(name, BENFICA_NAME)

-----------------------------------------------------------------------------
(* parse_competition_line *)

\* re.match(r"^\d{2}/\d{2}$", s) or re.match(r"^\d{4}/\d{2}$", s),
\* for s without a newline
IsShortSeason(s) ==
    /\ Len(s) = 5
    /\ \A i \in {1, 2, 4, 5} : IsDigit(Char(s, i))
    /\ Char(s, 3) = "/"

IsLongSeason(s) ==
    /\ Len(s) = 7
    /\ \A i \in {1, 2, 3, 4, 6, 7} : IsDigit(Char(s, i))
    /\ Char(s, 5) = "/"

\* r"Jornada\s+(\d+)" matches at position i of s
JornadaAt(s, i) ==
    /\ StartsWith(From(s, i), "Jornada")
    /\ i + 7 <= Len(s)
    /\ IsSpace(Char(s, i + 7))
    /\ SpaceRunEnd(s, i + 7) + 1 <= Len(s)
    /\ IsDigit(Char(s, SpaceRunEnd(s, i + 7) + 1))

\* group 1 of that match
JornadaDigits(s, i) ==
    LET d == SpaceRunEnd(s, i + 7) + 1
    IN  SubSeq(s, d, DigitRunEnd(s, d))

\* the leftmost position at or after i where the pattern matches; 0 if none
RECURSIVE JornadaFrom(_, _)
JornadaFrom(s, i) ==
    LET j == FindFrom(s, "Jornada", i)
    IN  IF j = 0 THEN 0
        ELSE IF JornadaAt(s, j) THEN j
        ELSE JornadaFrom(s, j + 1)

\* re.search(r"Jornada\s+(\d+)", s), then int(m.group(1))
SearchJornada(s) ==
    LET j == JornadaFrom(s, 1)
    IN  IF j = 0 THEN None ELSE Some(ToInt(JornadaDigits(s, j)))

\* r"\s*-\s*Jornada\s+(?P<j>\d+)$" matches the whole of t
JornadaTail(t) ==
    LET dash == IF t # "" /\ IsSpace(Char(t, 1)) THEN SpaceRunEnd(t, 1) + 1 ELSE 1
        word == IF dash + 1 <= Len(t) /\ IsSpace(Char(t, dash + 1))
                THEN SpaceRunEnd(t, dash + 1) + 1 ELSE dash + 1
    IN  /\ dash <= Len(t)
        /\ Char(t, dash) = "-"
        /\ JornadaAt(t, word)
        /\ DigitRunEnd(t, SpaceRunEnd(t, word + 7) + 1) = Len(t)

JornadaTailStart(t) ==
    LET dash == IF t # "" /\ IsSpace(Char(t, 1)) THEN SpaceRunEnd(t, 1) + 1 ELSE 1
    IN  IF dash + 1 <= Len(t) /\ IsSpace(Char(t, dash + 1))
        THEN SpaceRunEnd(t, dash + 1) + 1 ELSE dash + 1

\* r"(?:\s*-\s*Jornada\s+(?P<j>\d+))?$" matches the whole of t
OptionalTail(t) == t = "" \/ JornadaTail(t)

\* the length of the season that r"(?P<season>\d{2}/\d{2}|\d{4}/\d{2})"
\* followed by the optional tail and $ matches at position p; 0 if none
SeasonLenAt(s, p) ==
    IF p + 4 <= Len(s) /\ IsShortSeason(SubSeq(s, p, p + 4))
       /\ OptionalTail(From(s, p + 5))
    THEN 5
    ELSE IF p + 6 <= Len(s) /\ IsLongSeason(SubSeq(s, p, p + 6))
            /\ OptionalTail(From(s, p + 7))
         THEN 7
         ELSE 0

\* the pattern matches with group comp being the first k characters of s
SpaceFormAt(s, k) ==
    /\ k + 1 <= Len(s)
    /\ IsSpace(Char(s, k + 1))
    /\ SeasonLenAt(s, SpaceRunEnd(s, k + 1) + 1) # 0

\* the shortest comp, of at least k characters, the pattern matches with
RECURSIVE SpaceFormFrom(_, _)
SpaceFormFrom(s, k) ==
    IF k >= Len(s) THEN 0
    ELSE IF SpaceFormAt(s, k) THEN k
    ELSE SpaceFormFrom(s, k + 1)

\* re.match(r"(?P<comp>.+?)\s+(?P<season>\d{2}/\d{2}|\d{4}/\d{2})"
\*          r"(?:\s*-\s*Jornada\s+(?P<j>\d+))?$", s), for s without a newline:
\* comp is lazy, so the match is the one with the shortest comp
SpaceFormMatch(s) ==
    LET k == SpaceFormFrom(s, 1)
    IN  IF k = 0 THEN None
        ELSE LET p == SpaceRunEnd(s, k + 1) + 1
                 n == SeasonLenAt(s, p)
                 t == From(s, p + n)
             IN  Some([comp   |-> SubSeq(s, 1, k),
                       season |-> SubSeq(s, p, p + n - 1),
                       j      |-> IF t = "" THEN None
                                  ELSE Some(JornadaDigits(t, JornadaTailStart(t)))])

\* PipeForm taking whatever follows the "|" as the season
PipeFormAnySeason(first_line) ==
    LET parts == SplitOnce(first_line, "|")
        comp_name == Strip(parts[1])
        rest == Strip(Strip(parts[2]))
    IN  IF Contains(rest, "-")
        THEN LET parts2 == SplitOnce(rest, "-")
                 season_part == Strip(parts2[1])
                 rest2 == Strip(parts2[2])
             IN  [competition |-> Some(comp_name),
                  season      |-> Some(season_part),
                  matchday    |-> SearchJornada(rest2)]
        ELSE [competition |-> Some(comp_name),
              season      |-> Some(rest),
              matchday    |-> None]

\* the branch for a first line that contains "|"
PipeForm(first_line) ==
    LET parts == SplitOnce(first_line, "|")
        comp_name == Strip(parts[1])
        rest == Strip(Strip(parts[2]))
    IN  IF Contains(rest, "-")
        THEN LET parts2 == SplitOnce(rest, "-")
                 season_part == Strip(parts2[1])
                 rest2 == Strip(parts2[2])
             IN  [competition |-> Some(comp_name),
                  season      |-> Some(season_part),
                  matchday    |-> SearchJornada(rest2)]
        ELSE [competition |-> Some(comp_name),
              season      |-> IF IsShortSeason(rest) \/ IsLongSeason(rest)
                              THEN Some(rest) ELSE None,
              matchday    |-> None]

\* the branch for a first line without "|"
SpaceForm(first_line) ==
    LET m == SpaceFormMatch(first_line)
    IN  IF ~IsNone(m)
        THEN [competition |-> Some(Strip(Get(m).comp)),
              season      |-> Some(Strip(Get(m).season)),
              matchday    |-> IF ~IsNone(Get(m).j)
                              THEN Some(ToInt(Get(Get(m).j))) ELSE None]
        ELSE [competition |-> Some(first_line),
              season      |-> None,
              matchday    |-> None]

parse_competition_line(first_line0) ==
    LET first_line == Strip(first_line0)
    IN  IF first_line = ""
        THEN [competition |-> None, season |-> None, matchday |-> None]
        ELSE IF Contains(first_line, "|") THEN PipeForm(first_line)
        ELSE SpaceForm(first_line)

-----------------------------------------------------------------------------
(* extract_ticket_url *)

RECURSIVE FirstHttpLine(_)
FirstHttpLine(lines) ==
    IF lines = << >> THEN None
    ELSE IF StartsWith(Strip(Head(lines)), "http")
         THEN Some(Strip(Head(lines)))
         ELSE FirstHttpLine(Tail(lines))

extract_ticket_url(description) == FirstHttpLine(SplitLines(description))

-----------------------------------------------------------------------------
(* parse_summary *)

NoMatchInfo ==
    [event_type |-> "other", team_a |-> None, team_b |-> None,
     benfica_home |-> None, opponent |-> None, sport |-> None,
     squad_label |-> None, broadcast |-> None]

\* segments = [s.strip() for s in summary.split("|") if s.strip()]
Segments(summary) == StripNonEmpty(Split(summary, "|"))

\* MatchIdx looking at the first segment only
MatchIdxFirstOnly(segments) ==
    IF segments # << >> /\ Contains(segments[1], " x ") THEN 1 ELSE 0

\* the index of the first segment that contains " x "; 0 stands for None
MatchIdx(segments) ==
    LET hits == {i \in 1..Len(segments) : Contains(segments[i], " x ")}
    IN  IF hits = {} THEN 0 ELSE SetMin(hits)

\* match_clean = re.sub(r"^\W+", "", match_seg).strip()
MatchClean(match_seg) == Strip(StripLeadingNonWord(match_seg))

\* [s.strip() for s in match_clean.split(" x ", 1)], before the whitespace
\* of the two names is normalized
SplitTeams(match_clean) ==
    LET parts == SplitOnce(match_clean, " x ")
    IN  <<Strip(parts[1]), Strip(parts[2])>>

\* HomeAway naming team_b the opponent in the away branch too
HomeAwaySameOpponent(team_a, team_b) ==
    LET a_is_benfica == is_benfica_team(team_a)
        b_is_benfica == is_benfica_team(team_b)
    IN  IF a_is_benfica /\ ~b_is_benfica
        THEN [benfica_home |-> Some(TRUE), opponent |-> Some(team_b)]
        ELSE IF b_is_benfica /\ ~a_is_benfica
        THEN [benfica_home |-> Some(FALSE), opponent |-> Some(team_b)]
        ELSE [benfica_home |-> None,
              opponent |-> Some(IF team_b # "" THEN team_b ELSE team_a)]

\* HomeAway with the first branch taken on a_is_benfica alone
HomeAwayFirstWins(team_a, team_b) ==
    LET a_is_benfica == is_benfica_team(team_a)
        b_is_benfica == is_benfica_team(team_b)
    IN  IF a_is_benfica
        THEN [benfica_home |-> Some(TRUE), opponent |-> Some(team_b)]
        ELSE IF b_is_benfica /\ ~a_is_benfica
        THEN [benfica_home |-> Some(FALSE), opponent |-> Some(team_a)]
        ELSE [benfica_home |-> None,
              opponent |-> Some(IF team_b # "" THEN team_b ELSE team_a)]

\* a_is_benfica / b_is_benfica and the three-way branch on them
HomeAway(team_a, team_b) ==
    LET a_is_benfica == is_benfica_team(team_a)
        b_is_benfica == is_benfica_team(team_b)
    IN  IF a_is_benfica /\ ~b_is_benfica
        THEN [benfica_home |-> Some(TRUE), opponent |-> Some(team_b)]
        ELSE IF b_is_benfica /\ ~a_is_benfica
        THEN [benfica_home |-> Some(FALSE), opponent |-> Some(team_a)]
        ELSE [benfica_home |-> None,
              opponent |-> Some(IF team_b # "" THEN team_b ELSE team_a)]

\* team_a, team_b, benfica_home, opponent of the pairing segment
Pairing(match_seg) ==
    LET match_clean == MatchClean(match_seg)
    IN  IF Contains(match_clean, " x ")
        THEN LET raw == SplitTeams(match_clean)
                 team_a == CollapseWhitespace(raw[1])
                 team_b == CollapseWhitespace(raw[2])
                 ha == HomeAway(team_a, team_b)
             IN  [team_a |-> Some(team_a), team_b |-> Some(team_b),
                  benfica_home |-> ha.benfica_home, opponent |-> ha.opponent]
        ELSE [team_a |-> None, team_b |-> None,
              benfica_home |-> None, opponent |-> None]

\* the loop over metadata_segments: the last segment with a broadcaster
\* keyword, and the first segment without one
IsBroadcast(seg) == ContainsAny(seg, BROADCAST_KEYWORDS)

BroadcastInfo(metadata_segments) ==
    LET hits == {i \in 1..Len(metadata_segments) : IsBroadcast(metadata_segments[i])}
    IN  IF hits = {} THEN None ELSE Some(metadata_segments[SetMax(hits)])

\* ModalitySegment taking the first metadata segment, broadcast or not
ModalitySegmentFirstOfAll(metadata_segments) ==
    IF metadata_segments = << >> THEN None ELSE Some(metadata_segments[1])

ModalitySegment(metadata_segments) ==
    LET rest == {i \in 1..Len(metadata_segments) : ~IsBroadcast(metadata_segments[i])}
    IN  IF rest = {} THEN None ELSE Some(metadata_segments[SetMin(rest)])

\* Modality with the football-squad branch setting the squad label only
ModalitySquadOnly(modality_segment) ==
    IF IsNone(modality_segment) \/ modality_segment = Some("")
    THEN [sport |-> None, squad_label |-> None]
    ELSE LET seg == Get(modality_segment)
             sk == FirstKeyword(seg, SPORT_KEYWORDS)
             fk == FirstKeyword(seg, FOOTBALL_SQUAD_KEYWORDS)
         IN  IF sk # 0
             THEN LET after == Strip(SplitOnce(seg, SPORT_KEYWORDS[sk])[2])
                  IN  [sport |-> Some(SPORT_KEYWORDS[sk]),
                       squad_label |-> IF after # "" THEN Some(after) ELSE None]
             ELSE IF fk # 0
             THEN [sport |-> None, squad_label |-> Some(seg)]
             ELSE [sport |-> None, squad_label |-> None]

\* Modality keeping the segment as squad label when no keyword hits
ModalityLabelAlways(modality_segment) ==
    IF IsNone(modality_segment) \/ modality_segment = Some("")
    THEN [sport |-> None, squad_label |-> None]
    ELSE LET seg == Get(modality_segment)
             sk == FirstKeyword(seg, SPORT_KEYWORDS)
             fk == FirstKeyword(seg, FOOTBALL_SQUAD_KEYWORDS)
         IN  IF sk # 0
             THEN LET after == Strip(SplitOnce(seg, SPORT_KEYWORDS[sk])[2])
                  IN  [sport |-> Some(SPORT_KEYWORDS[sk]),
                       squad_label |-> IF after # "" THEN Some(after) ELSE None]
             ELSE IF fk # 0
             THEN [sport |-> Some("Futebol"), squad_label |-> Some(seg)]
             ELSE [sport |-> None, squad_label |-> Some(seg)]

\* sport and squad_label from the modality segment
Modality(modality_segment) ==
    IF IsNone(modality_segment) \/ modality_segment = Some("")
    THEN [sport |-> None, squad_label |-> None]
    ELSE LET seg == Get(modality_segment)
             sk == FirstKeyword(seg, SPORT_KEYWORDS)
             fk == FirstKeyword(seg, FOOTBALL_SQUAD_KEYWORDS)
         IN  IF sk # 0
             THEN LET after == Strip(SplitOnce(seg, SPORT_KEYWORDS[sk])[2])
                  IN  [sport |-> Some(SPORT_KEYWORDS[sk]),
                       squad_label |-> IF after # "" THEN Some(after) ELSE None]
             ELSE IF fk # 0
             THEN [sport |-> Some("Futebol"), squad_label |-> Some(seg)]
             ELSE [sport |-> None, squad_label |-> None]

parse_summary(summary0) ==
    LET summary == Strip(summary0)
        segments == Segments(summary)
        match_idx == MatchIdx(segments)
    IN  IF summary = "" THEN NoMatchInfo
        ELSE IF match_idx = 0 THEN NoMatchInfo
        ELSE LET pairing == Pairing(segments[match_idx])
                 metadata_segments == SubSeq(segments, match_idx + 1, Len(segments))
                 modality == Modality(ModalitySegment(metadata_segments))
             IN  [event_type   |-> "match",
                  team_a       |-> pairing.team_a,
                  team_b       |-> pairing.team_b,
                  benfica_home |-> pairing.benfica_home,
                  opponent     |-> pairing.opponent,
                  sport        |-> modality.sport,
                  squad_label  |-> modality.squad_label,
                  broadcast    |-> BroadcastInfo(metadata_segments)]

-----------------------------------------------------------------------------
(* parse_event *)

\* lines = description.splitlines(); first_line = lines[0].strip() if lines else ""
FirstLine(description) ==
    LET lines == SplitLines(description)
    IN  IF lines # << >> THEN Strip(lines[1]) ELSE ""

\* Header handing the whole description to parse_competition_line
HeaderWholeDescription(description) ==
    IF Strip(description) # "" THEN parse_competition_line(description)
    ELSE [competition |-> None, season |-> None, matchday |-> None]

\* competition, season, matchday of the description
Header(description) ==
    LET first_line == FirstLine(description)
    IN  IF first_line # "" THEN parse_competition_line(first_line)
        ELSE [competition |-> None, season |-> None, matchday |-> None]

\* TicketUrl without the test for "bilhete"
TicketUrlUngated(description) == extract_ticket_url(description)

\* step 3: the ticket URL of a match or of another event
TicketUrl(description) ==
    IF Contains(Lower(description), "bilhete")
    THEN extract_ticket_url(description) ELSE None

\* step 4: the football fallback heuristic
LooksLikeFootball(summary, competition) ==
    \/ Contains(summary, "@") \/ Contains(summary, "@^")
    \/ ContainsAny(Lower(OrEmpty(competition)), FOOTBALL_COMP_KEYWORDS)

FallbackSquadKeywords ==
    <<"Sub-23", "Sub 23", "Sub-19", "Sub 19", "Juniores", "Equipa B">>

\* FallbackSquad without the test for a youth or reserve squad in the title
FallbackSquadNoYouthTest(squad_label, summary, competition) ==
    LET summary_lower == Lower(summary)
        comp_lower == Lower(OrEmpty(competition))
    IN  IF ~IsNone(squad_label) THEN squad_label
        ELSE IF \/ Contains(comp_lower, "feminina")
                \/ Contains(comp_lower, "feminino")
                \/ Contains(summary_lower, "feminina")
                \/ Contains(summary_lower, "feminino")
        THEN Some("Feminino")
        ELSE Some("Masculino")

\* the squad label the fallback guesses when the title gave none
FallbackSquad(squad_label, summary, competition) ==
    LET summary_lower == Lower(summary)
        comp_lower == Lower(OrEmpty(competition))
    IN  IF ~IsNone(squad_label) THEN squad_label
        ELSE IF \/ Contains(comp_lower, "feminina")
                \/ Contains(comp_lower, "feminino")
                \/ Contains(summary_lower, "feminina")
                \/ Contains(summary_lower, "feminino")
        THEN Some("Feminino")
        ELSE IF ContainsAny(summary, FallbackSquadKeywords)
        THEN squad_label
        ELSE Some("Masculino")

\* FootballFallback without the test of event_type
FootballFallbackAnyType(event_type, sport, squad_label, summary, competition) ==
    IF IsNone(sport) /\ LooksLikeFootball(summary, competition)
    THEN [sport |-> Some("Futebol"),
          squad_label |-> FallbackSquad(squad_label, summary, competition)]
    ELSE [sport |-> sport, squad_label |-> squad_label]

FootballFallback(event_type, sport, squad_label, summary, competition) ==
    IF event_type = "match" /\ IsNone(sport)
       /\ LooksLikeFootball(summary, competition)
    THEN [sport |-> Some("Futebol"),
          squad_label |-> FallbackSquad(squad_label, summary, competition)]
    ELSE [sport |-> sport, squad_label |-> squad_label]

\* the Event of the ticketing short-circuit
TicketingEvent(e, h) ==
    [event_type |-> "ticketing", summary |-> e.summary,
     description |-> e.description, venue_name |-> e.location,
     sport |-> None, squad_label |-> None, benfica_home |-> None,
     opponent |-> None, competition |-> h.competition, season |-> h.season,
     matchday |-> h.matchday,
     ticket_url |-> extract_ticket_url(e.description), broadcast |-> None]

\* the Event of the normal path
ParsedEvent(e, h, info, url) ==
    LET fb == FootballFallback(info.event_type, info.sport, info.squad_label,
                               e.summary, h.competition)
    IN  [event_type |-> info.event_type, summary |-> e.summary,
         description |-> e.description, venue_name |-> e.location,
         sport |-> fb.sport, squad_label |-> fb.squad_label,
         benfica_home |-> info.benfica_home, opponent |-> info.opponent,
         competition |-> h.competition, season |-> h.season,
         matchday |-> h.matchday, ticket_url |-> url,
         broadcast |-> info.broadcast]

-----------------------------------------------------------------------------
(* The feed entries the model draws from.  A title is a lead, a pairing    *)
(* and up to MaxMeta metadata segments; a description is a header line and *)
(* up to MaxLines further lines.                                           *)

MaxMeta == 2

MaxLines == 2

SeqsUpTo(S, n) == UNION {[1..k -> S] : k \in 0..n}

RECURSIVE Join(_, _)
Join(seq, sep) ==
    IF seq = << >> THEN "" ELSE sep \o Head(seq) \o Join(Tail(seq), sep)

Leads == {"", "@ ", "@^ ", "$ Bilhetes @ ", "Bilhetes ", "Futebol | ", " | "}

Pairings ==
    {"SL Benfica x Pa%os Ferreira", "FC Porto x SL Benfica",
     "SL Benfica x SL Benfica B", "Sporting x FC Porto",
     "SL  Benfica x Sporting", "Sporting CP x SL\tBenfica B",
     "SL Benfica B  x  Os SL Benfica", "Os SL Benfica x Sporting",
     "SL Benfica x SL  Benfica B", "x Porto", "Visita ao Museu Benfica"}

MetaSegments ==
    {"Equipa B", "# BTV", "Andebol Feminino", "Futebol", "H!quei em Patins",
     "Futsal Andebol", "Sub 19", "Sport TV Futsal"}

MetaTitles ==
    {lead \o "SL Benfica x Pa%os Ferreira" \o Join(meta, " | ") :
        lead \in {"", "@ "}, meta \in SeqsUpTo(MetaSegments, MaxMeta)}

PairingTitles ==
    {lead \o pairing \o tail :
        lead \in Leads, pairing \in Pairings, tail \in {"", " | Feminino |# BTV"}}

OtherTitles ==
    {"", "  ", "Bilhetes", "bilhetes \t", "Venda de bilhetes | ",
     "Info Bilhetes SL Benfica x Sporting", "SL Benfica x Sporting |Bilhetes",
     "@ SL Benfica x Pa%os Ferreira | Equipa B | # BTV ",
     "Jogo | | a x b|c x d", " x ", "| x |", "SL Benfica x", "A  x B",
     "FC Porto x SL Benfica | Juniores Sub-19 | Canal 11 | DAZN",
     "SL Benfica x Sporting | Andebol Basquetebol",
     "SL Benfica x Sporting | Equipa Futsal Feminino",
     "SL Benfica x Sporting | Voleibol e Voleibol B",
     "SL Benfica x Sporting | Futsal Sub-19",
     "Sub-19 | SL Benfica x Sporting | Benfica TV Andebol | Feminino | Futsal",
     "@ x Porto | Andebol"}

Titles == MetaTitles \cup PairingTitles \cup OtherTitles

KeyTitles ==
    {"Visita ao Museu Benfica", "$ Bilhetes @ SL Benfica x Sporting",
     "@ SL Benfica x Pa%os Ferreira | Equipa B | # BTV",
     "SL Benfica x Sporting", "FC Porto x SL Benfica | # BTV",
     "SL Benfica x Sporting | Sub 19", "Sporting x SL Benfica | Andebol",
     "SL Benfica x Sporting | Bilhetes"}

Headers ==
    {"", " ", "Campeonato Nacional Masculino | 25/26 - Jornada 4",
     "CEV Challenge Cup 25/26", "Segunda Liga 25/26 - Jornada 9",
     "Liga Portugal | 25/26", "Liga Portugal | 2025/26", "Liga Portugal | Final",
     "Liga Portugal|25/26 - Final", "Ta%a de Portugal | 25/26 -Jornada  12 - Jornada 3",
     "| 25/26", "Superta%a | - Jornada 2", "Ta%a | 125/26", "Ta%a | 25/26 |",
     "Campeonato Nacional Masculino", "25/26", "Liga 25/26 - Jornada",
     "Liga  2025/26 -Jornada\t07", "Liga 25/26 25/26 ", "Liga 25/26 - Jornada 3 x",
     "Liga 225/26", "Liga dos Campe~es Feminina 25/26 - Jornada 1",
     "Campeonato Nacional Feminino  |  25/26 - jornada 4",
     "CRIT?RIOS DE VENDA", "Crit&rios de Venda | Liga Portugal",
     "Liga Portugal - Crit&rios de venda", "Bilhetes 25/26",
     "Compre aqui: https://x/y"}

Lines ==
    {"https://x/y", " http://a ", "Compre aqui: https://x/y", "Bilhetes:",
     "Segunda Liga 25/26 - Jornada 9"}

HeaderBodies ==
    {h \o tail : h \in Headers, tail \in {"", "\nBILHETE\nhttps://x/y"}}

LineBodies ==
    {h \o Join(lines, "\n") :
        h \in {"", "Liga Revela%*o 25/26"}, lines \in SeqsUpTo(Lines, MaxLines)}

Bodies == HeaderBodies \cup LineBodies

Entries ==
    {[summary |-> t, description |-> d, location |-> "Est!dio da Luz"] :
        t \in Titles, d \in {"", "Liga Portugal | 25/26\nhttps://x/y"}}
    \cup
    {[summary |-> t, description |-> d, location |-> ""] :
        t \in KeyTitles, d \in Bodies}

-----------------------------------------------------------------------------
(* The state machine: one feed entry, as fetch_and_parse hands it to       *)
(* parse_event, and the Event parse_event returns for it.  header,         *)
(* summary_info and ticket_url are parse_event's locals of the same names  *)
(* (header is the triple competition, season, matchday); start, end, uid   *)
(* and source_name are copied through unread and are left out.             *)

Init ==
    /\ entry \in Entries
    /\ pc = "fetched"
    /\ header = None
    /\ summary_info = None
    /\ ticket_url = None
    /\ event = None

\* parse_event, returning from the ticketing short-circuit
ParseTicketing ==
    /\ pc = "fetched"
    /\ LET h == Header(entry.description)
       IN  /\ is_ticketing_event(entry.summary, entry.description, h.competition)
           /\ header' = Some(h)
           /\ ticket_url' = extract_ticket_url(entry.description)
           /\ event' = Some(TicketingEvent(entry, h))
    /\ pc' = "parsed"
    /\ UNCHANGED <<entry, summary_info>>

\* parse_event, returning at its end
ParseSummary ==
    /\ pc = "fetched"
    /\ LET h == Header(entry.description)
           info == parse_summary(entry.summary)
           url == TicketUrl(entry.description)
       IN  /\ ~is_ticketing_event(entry.summary, entry.description, h.competition)
           /\ header' = Some(h)
           /\ summary_info' = Some(info)
           /\ ticket_url' = url
           /\ event' = Some(ParsedEvent(entry, h, info, url))
    /\ pc' = "parsed"
    /\ UNCHANGED entry

Next == ParseTicketing \/ ParseSummary

Spec == Init /\ [][Next]_vars

-----------------------------------------------------------------------------
(* Properties *)

Parsed == pc = "parsed"

\* the Event parse_event returned
Ev == Get(event)

\* what parse_summary returned, when parse_event called it
TitleParsed == Parsed /\ ~IsNone(summary_info)

Info == Get(summary_info)

MatchOnlyFieldsAbsent(ev) ==
    /\ IsNone(ev.sport)
    /\ IsNone(ev.squad_label)
    /\ IsNone(ev.benfica_home)
    /\ IsNone(ev.opponent)
    /\ IsNone(ev.broadcast)

\* C1: an Event whose event_type is "ticketing" or "other" has sport,
\* squad_label, benfica_home, opponent and broadcast all absent; only a
\* "match" populates any of them.
C1_MutualExclusivity ==
    Parsed /\ Ev.event_type \in {"ticketing", "other"}
        => MatchOnlyFieldsAbsent(Ev)

\* C1 witness: a ticketing Event whose title holds a pairing and a
\* broadcaster segment the title parser would have extracted.
C1_Witness ==
    /\ Parsed
    /\ Ev.event_type = "ticketing"
    /\ ~IsNone(parse_summary(entry.summary).opponent)
    /\ ~IsNone(parse_summary(entry.summary).broadcast)

\* the text of the description before its first line break
BodyFirstLine(description) ==
    LET i == Find(description, "\n")
    IN  IF i = 0 THEN description ELSE SubSeq(description, 1, i - 1)

\* some trimmed, non-empty "|"-separated piece of the title contains " x "
HasPairingSegment(title) ==
    LET pieces == Split(title, "|")
    IN  \E i \in 1..Len(pieces) :
            Strip(pieces[i]) # "" /\ Contains(Strip(pieces[i]), " x ")

\* C2: event_type is "ticketing" exactly when the classifier accepts the
\* title, the body and the competition parsed from the body's first line,
\* whether or not the title holds a pairing; otherwise it is "match" exactly
\* when some trimmed non-empty "|"-separated segment of the title contains
\* " x ", and "other" when none does.
C2_TicketingGates ==
    Parsed =>
        Ev.event_type =
            IF is_ticketing_event(
                   entry.summary, entry.description,
                   parse_competition_line(BodyFirstLine(entry.description)).competition)
            THEN "ticketing"
            ELSE IF HasPairingSegment(entry.summary) THEN "match" ELSE "other"

\* C2 witness: the ticket title with a pairing, classified as ticketing.
C2_Witness ==
    /\ Parsed
    /\ entry.summary = "$ Bilhetes @ SL Benfica x Sporting"
    /\ HasPairingSegment(entry.summary)
    /\ Ev.event_type = "ticketing"

\* the three tests of the classifier, with the third one made on title3
TicketingTests(title, title3, body, competition) ==
    \/ Contains(Lower(body), "crit&rios de venda")
    \/ StartsWith(Lower(OrEmpty(competition)), "crit&rios de venda")
    \/ StartsWith(Lower(Strip(title)), "$ bilhetes")
    \/ StartsWith(Lower(Strip(title)), "bilhetes ")
    \/ (Contains(Lower(title3), "bilhetes") /\ ~Contains(Lower(title3), " | "))

IsHomeClub(name) == StartsWith(name, "SL Benfica")

\* C4: when the pairing is split into team_a and team_b and exactly one of
\* them starts with the home-club name, benfica_home is TRUE if that side is
\* team_a and FALSE if it is team_b, and opponent is the other side; when
\* both or neither do, benfica_home is absent and opponent is team_b
\* (team_a only if team_b is empty).
C4_HomeAwayResolution ==
    TitleParsed /\ ~IsNone(Info.team_a) =>
        LET a == Get(Info.team_a)
            b == Get(Info.team_b)
        IN  IF IsHomeClub(a) # IsHomeClub(b)
            THEN /\ Info.benfica_home = Some(IsHomeClub(a))
                 /\ Info.opponent = Some(IF IsHomeClub(a) THEN b ELSE a)
            ELSE /\ IsNone(Info.benfica_home)
                 /\ Info.opponent = Some(IF b = "" THEN a ELSE b)

\* C4 witness: an away fixture, the home club on the team_b side.
C4_Witness ==
    /\ TitleParsed
    /\ Info.team_a = Some("FC Porto")
    /\ IsHomeClub(Get(Info.team_b))
    /\ Info.benfica_home = Some(FALSE)
    /\ Info.opponent = Some("FC Porto")

\* the title parser split the pairing and recognized exactly one side
ExactlyOneHome(info) ==
    /\ ~IsNone(info.team_a)
    /\ IsHomeClub(Get(info.team_a)) # IsHomeClub(Get(info.team_b))

\* C5 as stated: benfica_home and opponent of an Event are set only when
\* exactly one of the two parsed team names is recognized as the home club;
\* both are absent when the pairing is ambiguous and when there is none.
C5_AsStated ==
    Parsed /\ (~IsNone(Ev.benfica_home) \/ ~IsNone(Ev.opponent))
        => TitleParsed /\ ExactlyOneHome(Info)

\* C5 amended: benfica_home is set only when exactly one of the two parsed
\* team names is recognized as the home club, and is absent when the pairing
\* is ambiguous or was not found; opponent is absent when no pairing was
\* split, but for an ambiguous pairing it is still set, to team_b.
C5_HomeAwayPresence ==
    Parsed =>
        /\ ~IsNone(Ev.benfica_home) => TitleParsed /\ ExactlyOneHome(Info)
        /\ ~IsNone(Ev.opponent) => TitleParsed /\ ~IsNone(Info.team_a)
        /\ TitleParsed /\ ~IsNone(Info.team_a) /\ ~ExactlyOneHome(Info)
              => IsNone(Ev.benfica_home) /\ Ev.opponent = Info.team_b

\* C5 witness: a match between two home-club squads, with an opponent and
\* no benfica_home.
C5_Witness ==
    /\ TitleParsed
    /\ Ev.event_type = "match"
    /\ ~IsNone(Info.team_a)
    /\ IsHomeClub(Get(Info.team_a)) /\ IsHomeClub(Get(Info.team_b))
    /\ IsNone(Ev.benfica_home)
    /\ Ev.opponent = Info.team_b

\* team_a and team_b of the title as they stand before re.sub(r"\s+", " ", .)
RawTeams(title) ==
    LET segments == Segments(Strip(title))
    IN  SplitTeams(MatchClean(segments[MatchIdx(segments)]))

\* C6 as stated: whenever the title parser's benfica_home is present,
\* exactly one of team_a / team_b as they stand before whitespace
\* normalization starts with the home-club name.
C6_AsStated ==
    TitleParsed /\ ~IsNone(Info.benfica_home) =>
        IsHomeClub(RawTeams(entry.summary)[1]) # IsHomeClub(RawTeams(entry.summary)[2])

\* C6 amended: whenever the title parser's benfica_home is present, exactly
\* one of team_a / team_b as they stand after whitespace normalization (the
\* values the parser returns) starts with the home-club name.
C6_HomeAwayExclusivity ==
    TitleParsed /\ ~IsNone(Info.benfica_home) =>
        IsHomeClub(Get(Info.team_a)) # IsHomeClub(Get(Info.team_b))

\* C6 witness: benfica_home present for a side that starts with the
\* home-club name only once its whitespace is normalized.
C6_Witness ==
    /\ TitleParsed
    /\ Info.benfica_home = Some(TRUE)
    /\ RawTeams(entry.summary)[1] # Get(Info.team_a)
    /\ ~IsHomeClub(RawTeams(entry.summary)[1])
    /\ IsHomeClub(Get(Info.team_a))
    /\ ~IsHomeClub(Get(Info.team_b))

FixtureTitle == "@ SL Benfica x Pa%os Ferreira | Equipa B | # BTV"

\* what C7 states the title parser returns for FixtureTitle
FixtureInfoAsStated ==
    [event_type |-> "match", team_a |-> Some("SL Benfica"),
     team_b |-> Some("Pa%os Ferreira"), benfica_home |-> Some(TRUE),
     opponent |-> Some("Pa%os Ferreira"), sport |-> None,
     squad_label |-> Some("Equipa B"), broadcast |-> Some("# BTV")]

\* the modality segment of a title with a pairing segment
ModalityOf(title) ==
    LET segments == Segments(Strip(title))
    IN  ModalitySegment(SubSeq(segments, MatchIdx(segments) + 1, Len(segments)))

\* the title has a modality segment with a football-squad keyword and no
\* sport keyword
OnlySquadKeyword(title) ==
    /\ ~IsNone(ModalityOf(title))
    /\ ~ContainsAny(Get(ModalityOf(title)), SPORT_KEYWORDS)
    /\ ContainsAny(Get(ModalityOf(title)), FOOTBALL_SQUAD_KEYWORDS)

\* C7 as stated: for FixtureTitle the title parser returns the teams, the
\* orientation, the opponent, squad_label "Equipa B" and the broadcast, and
\* leaves sport absent, the fallback step setting it afterwards; a modality
\* segment that hits only a football-squad keyword leaves the title step's
\* sport absent.
C7_AsStated ==
    TitleParsed =>
        /\ entry.summary = FixtureTitle =>
              Info = FixtureInfoAsStated /\ Ev.sport = Some("Futebol")
        /\ OnlySquadKeyword(entry.summary) => IsNone(Info.sport)

\* C7 amended: for FixtureTitle the title parser returns the teams, the
\* orientation, the opponent, squad_label "Equipa B", the broadcast and
\* sport "Futebol", set by its football-squad-keyword branch, and the Event
\* keeps both; a modality segment that hits only a football-squad keyword
\* makes the title step set sport to "Futebol" and squad_label to the whole
\* segment, which the fallback step leaves as they are.
C7_FixtureExtraction ==
    TitleParsed =>
        /\ entry.summary = FixtureTitle =>
              /\ Info = [FixtureInfoAsStated EXCEPT !.sport = Some("Futebol")]
              /\ Ev.sport = Some("Futebol")
              /\ Ev.squad_label = Some("Equipa B")
        /\ OnlySquadKeyword(entry.summary) =>
              /\ Info.sport = Some("Futebol")
              /\ Info.squad_label = ModalityOf(entry.summary)
              /\ Ev.sport = Info.sport
              /\ Ev.squad_label = Info.squad_label

\* C7 witness: FixtureTitle parsed, sport already set by the title step.
C7_Witness ==
    /\ TitleParsed
    /\ entry.summary = FixtureTitle
    /\ Info.sport = Some("Futebol")
    /\ Info.squad_label = Some("Equipa B")
    /\ Info.broadcast = Some("# BTV")

\* the trimmed first line of the body
HeaderLine == Strip(BodyFirstLine(entry.description))

\* s has the shape DD/DD or DDDD/DD
SeasonShape(s) ==
    \E n \in {2, 4} :
        /\ Len(s) = n + 3
        /\ \A i \in (1..n) \cup {n + 2, n + 3} : IsDigit(Char(s, i))
        /\ Char(s, n + 1) = "/"

AllSpaces(s, from, to) == \A i \in from..to : IsSpace(Char(s, i))

PipeExample == "Campeonato Nacional Masculino | 25/26 - Jornada 4"

\* C8: when the body's first line contains "|", competition is the trimmed
\* text left of the first "|"; if the right part contains "-", season is the
\* trimmed text left of its first "-" and matchday the integer captured by
\* Jornada\s+(\d+) in the remainder (absent if no match); if it contains no
\* "-", season is the right part when it has the shape DD/DD or DDDD/DD and
\* is absent otherwise, and matchday is absent.  PipeExample gives
\* "Campeonato Nacional Masculino", "25/26" and 4.
C8_PipeFormHeader ==
    Parsed /\ Contains(HeaderLine, "|") =>
        LET bar == Find(HeaderLine, "|")
            right == Strip(From(HeaderLine, bar + 1))
            dash == Find(right, "-")
        IN  /\ Get(header).competition = Some(Strip(SubSeq(HeaderLine, 1, bar - 1)))
            /\ dash # 0 =>
                  /\ Get(header).season = Some(Strip(SubSeq(right, 1, dash - 1)))
                  /\ Get(header).matchday = SearchJornada(From(right, dash + 1))
            /\ dash = 0 =>
                  /\ Get(header).season = IF SeasonShape(right) THEN Some(right) ELSE None
                  /\ IsNone(Get(header).matchday)
            /\ HeaderLine = PipeExample =>
                  Get(header) = [competition |-> Some("Campeonato Nacional Masculino"),
                                 season |-> Some("25/26"), matchday |-> Some(4)]

\* C8 witness: PipeExample parsed, with its matchday.
C8_Witness ==
    /\ Parsed
    /\ HeaderLine = PipeExample
    /\ Get(header).season = Some("25/26")
    /\ Get(header).matchday = Some(4)

\* the matchdays t can stand for as "[blanks] - [blanks] Jornada blanks digits"
TailDays(t) ==
    {ToInt(SubSeq(t, g, Len(t))) :
        g \in {g \in 1..Len(t) :
                 /\ \A i \in g..Len(t) : IsDigit(Char(t, i))
                 /\ \E d \in 1..Len(t), w \in 1..Len(t) :
                       /\ AllSpaces(t, 1, d - 1)
                       /\ Char(t, d) = "-"
                       /\ d < w
                       /\ AllSpaces(t, d + 1, w - 1)
                       /\ w + 7 < g
                       /\ SubSeq(t, w, w + 6) = "Jornada"
                       /\ AllSpaces(t, w + 7, g - 1)}}

\* every reading of s as "<competition text> <season> [- Jornada <digits>]"
\* that ends where s ends
SpaceFormReadings(s) ==
    UNION
    {LET comp == Strip(SubSeq(s, 1, k))
         season == SubSeq(s, p, p + n - 1)
         tail == From(s, p + n)
     IN  IF k + 1 < p /\ AllSpaces(s, k + 1, p - 1) /\ p + n - 1 <= Len(s)
            /\ SeasonShape(season)
         THEN IF tail = ""
              THEN {[competition |-> Some(comp), season |-> Some(season),
                     matchday |-> None]}
              ELSE {[competition |-> Some(comp), season |-> Some(season),
                     matchday |-> Some(day)] : day \in TailDays(tail)}
         ELSE {} :
        k \in 1..Len(s), p \in 1..Len(s), n \in {5, 7}}

SpaceExample == "CEV Challenge Cup 25/26"

\* C9: a non-empty first line without "|" is matched against
\* "<competition text> <season> [- Jornada <digits>]" anchored at the end of
\* the line; on a match competition, season and matchday are the three
\* groups (matchday absent without the Jornada part), and on no match the
\* whole trimmed line is the competition, with no season and no matchday.
\* SpaceExample gives "CEV Challenge Cup", "25/26" and no matchday.  An empty
\* first line gives all three absent, and the lines after the first have no
\* influence.
C9_SpaceFormHeader ==
    Parsed =>
        /\ HeaderLine = "" =>
              Get(header) = [competition |-> None, season |-> None, matchday |-> None]
        /\ HeaderLine # "" /\ ~Contains(HeaderLine, "|") =>
              IF SpaceFormReadings(HeaderLine) = {}
              THEN Get(header) = [competition |-> Some(HeaderLine),
                                  season |-> None, matchday |-> None]
              ELSE Get(header) \in SpaceFormReadings(HeaderLine)
        /\ HeaderLine = SpaceExample =>
              Get(header) = [competition |-> Some("CEV Challenge Cup"),
                             season |-> Some("25/26"), matchday |-> None]

\* C9 witness: SpaceExample parsed, followed by further lines.
C9_Witness ==
    /\ Parsed
    /\ HeaderLine = SpaceExample
    /\ Contains(entry.description, "\n")
    /\ Get(header).competition = Some("CEV Challenge Cup")
    /\ IsNone(Get(header).matchday)

\* the first body line, trimmed, that starts with "http"
FirstUrlLine(description) ==
    LET lines == Split(description, "\n")
        hits == {i \in 1..Len(lines) : StartsWith(Strip(lines[i]), "http")}
    IN  IF hits = {} THEN None ELSE Some(Strip(lines[SetMin(hits)]))

CompreLine == "Compre aqui: https://x/y"

\* C11: ticket URL extraction finds the first HTTP(S) URL in the body: a body
\* containing the text "Compre aqui: https://x/y" and no "bilhete" yields
\* ticket_url absent when event_type is "other", and the same body yields
\* the URL "https://x/y" as ticket_url when event_type is "ticketing".
C11_AsStated ==
    Parsed /\ Contains(entry.description, CompreLine)
           /\ ~Contains(Lower(entry.description), "bilhete") =>
        /\ Ev.event_type = "other" => IsNone(Ev.ticket_url)
        /\ Ev.event_type = "ticketing" => Ev.ticket_url = Some("https://x/y")

\* the sport keywords in the order C12 lists them
SportOrder ==
    <<"H!quei em Patins", "Andebol", "Futsal", "Basquetebol", "Voleibol",
      "Futebol", "H!quei">>

\* the entries of SportOrder that seg contains
SportHits(seg) == {i \in 1..Len(SportOrder) : Contains(seg, SportOrder[i])}

\* the trimmed text of seg after the first occurrence of k, absent if empty
RemainderAfter(seg, k) ==
    LET rest == Strip(From(seg, Find(seg, k) + Len(k)))
    IN  IF rest = "" THEN None ELSE Some(rest)

\* C12: sport and squad_label of a match come from the modality segment,
\* first hit wins in the order of the list: sport is the first entry of
\* SportOrder the segment contains (not the leftmost in the text, not the
\* longest) and squad_label the trimmed remainder after that keyword's first
\* occurrence, absent if empty, the text before the keyword dropped; only if
\* the segment contains no sport keyword and some football-squad keyword,
\* sport is "Futebol" and squad_label the entire segment; otherwise both are
\* absent.
C12_FirstHitWins ==
    TitleParsed /\ Info.event_type = "match" =>
        LET m == ModalityOf(entry.summary)
        IN  IF IsNone(m)
            THEN IsNone(Info.sport) /\ IsNone(Info.squad_label)
            ELSE IF SportHits(Get(m)) # {}
            THEN \E i \in SportHits(Get(m)) :
                    /\ \A j \in SportHits(Get(m)) : i <= j
                    /\ Info.sport = Some(SportOrder[i])
                    /\ Info.squad_label = RemainderAfter(Get(m), SportOrder[i])
            ELSE IF \E i \in 1..Len(FOOTBALL_SQUAD_KEYWORDS) :
                        Contains(Get(m), FOOTBALL_SQUAD_KEYWORDS[i])
            THEN Info.sport = Some("Futebol") /\ Info.squad_label = m
            ELSE IsNone(Info.sport) /\ IsNone(Info.squad_label)

\* C12 witness: a modality segment whose leftmost sport keyword comes later
\* in the list than another one it contains, which wins.
C12_Witness ==
    /\ TitleParsed
    /\ Info.event_type = "match"
    /\ ModalityOf(entry.summary) = Some("Futsal Andebol")
    /\ Info.sport = Some("Andebol")
    /\ IsNone(Info.squad_label)

\* the "|"-separated pieces of the title, trimmed
Pieces(title) ==
    LET raw == Split(title, "|")
    IN  [i \in 1..Len(raw) |-> Strip(raw[i])]

\* the position of the pairing piece: the first one that contains " x "
PairingAt(title) ==
    CHOOSE p \in 1..Len(Pieces(title)) :
        /\ Contains(Pieces(title)[p], " x ")
        /\ \A q \in 1..(p - 1) : ~Contains(Pieces(title)[q], " x ")

\* the positions of the non-empty pieces after the pairing piece
PostPairing(title) ==
    {i \in (PairingAt(title) + 1)..Len(Pieces(title)) : Pieces(title)[i] # ""}

HasBroadcaster(seg) ==
    \E k \in 1..Len(BROADCAST_KEYWORDS) : Contains(seg, BROADCAST_KEYWORDS[k])

\* C13: metadata resolution considers only the title segments strictly after
\* the pairing segment.  broadcast is the last such segment that contains a
\* broadcaster keyword and is absent exactly when none does; the modality
\* segment, from which sport and squad_label are resolved, is the first such
\* segment without a broadcaster keyword, later ones being ignored; a segment
\* with a broadcaster keyword is never the modality segment, even when it
\* also contains a sport keyword; segments before the pairing contribute
\* nothing.
C13_MetadataResolution ==
    TitleParsed /\ Info.event_type = "match" =>
        LET pieces == Pieces(entry.summary)
            post == PostPairing(entry.summary)
            bc == {i \in post : HasBroadcaster(pieces[i])}
            md == post \ bc
        IN  /\ IsNone(Info.broadcast) <=> bc = {}
            /\ bc # {} =>
                  \E i \in bc : /\ \A j \in bc : j <= i
                                /\ Info.broadcast = Some(pieces[i])
            /\ md = {} => IsNone(Info.sport) /\ IsNone(Info.squad_label)
            /\ md # {} =>
                  \E i \in md :
                      /\ \A j \in md : i <= j
                      /\ Info.sport = Modality(Some(pieces[i])).sport
                      /\ Info.squad_label = Modality(Some(pieces[i])).squad_label

\* C13 witness: a squad keyword before the pairing, a broadcast segment with
\* a sport keyword right after it, a modality segment without any keyword and
\* a sport keyword in a later segment: broadcast is set, sport is not.
C13_Witness ==
    /\ TitleParsed
    /\ entry.summary =
           "Sub-19 | SL Benfica x Sporting | Benfica TV Andebol | Feminino | Futsal"
    /\ Info.event_type = "match"
    /\ Info.broadcast = Some("Benfica TV Andebol")
    /\ IsNone(Info.sport)
    /\ IsNone(Info.squad_label)

\* the title or the competition signals football
FootballSignal(title, competition) ==
    \/ Contains(title, "@")
    \/ \E k \in 1..Len(FOOTBALL_COMP_KEYWORDS) :
           Contains(Lower(OrEmpty(competition)), FOOTBALL_COMP_KEYWORDS[k])

FeminineSignal(title, competition) ==
    \E w \in {"feminina", "feminino"} :
        Contains(Lower(OrEmpty(competition)), w) \/ Contains(Lower(title), w)

YouthSignal(title) ==
    \E w \in {"Sub-23", "Sub 23", "Sub-19", "Sub 19", "Juniores", "Equipa B"} :
        Contains(title, w)

\* C14: the fallback changes sport and squad_label only when event_type is
\* "match" and the title parser left sport absent; what the title parser
\* determined is never overridden.  In that case, if the title contains the
\* football emoji or the lower-cased competition contains a
\* football-competition keyword, sport becomes "Futebol" and a still absent
\* squad_label becomes "Feminino" when the lower-cased competition or title
\* contains "feminina" or "feminino", else stays absent when the title
\* contains a youth or reserve squad keyword, else becomes "Masculino";
\* without a football signal both stay as the title parser left them.
C14_FallbackEnricher ==
    TitleParsed =>
        IF /\ Info.event_type = "match"
           /\ IsNone(Info.sport)
           /\ FootballSignal(entry.summary, Get(header).competition)
        THEN /\ Ev.sport = Some("Futebol")
             /\ Ev.squad_label =
                    IF ~IsNone(Info.squad_label) THEN Info.squad_label
                    ELSE IF FeminineSignal(entry.summary, Get(header).competition)
                    THEN Some("Feminino")
                    ELSE IF YouthSignal(entry.summary) THEN None
                    ELSE Some("Masculino")
        ELSE /\ Ev.sport = Info.sport
             /\ Ev.squad_label = Info.squad_label

\* C14 witness: a match the title parser left without sport, football by its
\* competition only, with a youth squad keyword in the title: sport is set
\* and squad_label stays absent.
C14_Witness ==
    /\ TitleParsed
    /\ Info.event_type = "match"
    /\ IsNone(Info.sport)
    /\ ~Contains(entry.summary, "@")
    /\ FootballSignal(entry.summary, Get(header).competition)
    /\ ~FeminineSignal(entry.summary, Get(header).competition)
    /\ YouthSignal(entry.summary)
    /\ Ev.sport = Some("Futebol")
    /\ IsNone(Ev.squad_label)

\* every whitespace character of t is a single space between two others
SingleSpaced(t) ==
    \A i \in 1..Len(t) :
        IsSpace(Char(t, i)) =>
            /\ Char(t, i) = " "
            /\ i < Len(t) => ~IsSpace(Char(t, i + 1))

\* C15: whenever the title parser returns event_type "match", the pairing is
\* split into team_a and team_b, both present and non-empty with their
\* whitespace runs collapsed to single spaces, and opponent is present and is
\* one of the two, also when the pairing segment begins with emoji or symbols
\* that are stripped before the split.
C15_AsStated ==
    TitleParsed /\ Info.event_type = "match" =>
        /\ ~IsNone(Info.team_a)
        /\ ~IsNone(Info.team_b)
        /\ Get(Info.team_a) # ""
        /\ Get(Info.team_b) # ""
        /\ SingleSpaced(Get(Info.team_a))
        /\ SingleSpaced(Get(Info.team_b))
        /\ ~IsNone(Info.opponent)
        /\ Info.opponent \in {Info.team_a, Info.team_b}

\* the text fields of an Event that may be absent
OptionalTextFields ==
    {"competition", "season", "sport", "squad_label", "opponent", "broadcast",
     "ticket_url"}

\* C16: absence is never encoded as an empty string: in every Event each of
\* competition, season, sport, squad_label, opponent, broadcast and
\* ticket_url is absent or a non-empty string, also for pipe-form headers
\* whose text before the "|" or before the "-" is empty.
C16_AsStated ==
    Parsed => \A f \in OptionalTextFields : Ev[f] # Some("")

\* C17: in every title parser result and in every Event, squad_label present
\* implies sport present, so the fallback step, which runs only with sport
\* absent, starts with squad_label absent.
C17_SquadImpliesSport ==
    /\ Parsed => (~IsNone(Ev.squad_label) => ~IsNone(Ev.sport))
    /\ TitleParsed => (~IsNone(Info.squad_label) => ~IsNone(Info.sport))
    /\ TitleParsed /\ IsNone(Info.sport) => IsNone(Info.squad_label)

\* C17 witness: the title parser left sport and squad_label absent although
\* the title has a modality segment, and the fallback set both.
C17_Witness ==
    /\ TitleParsed
    /\ ~IsNone(ModalityOf(entry.summary))
    /\ IsNone(Info.sport)
    /\ IsNone(Info.squad_label)
    /\ Ev.sport = Some("Futebol")
    /\ ~IsNone(Ev.squad_label)

====
